---- MODULE Spec2Model ----
(***************************************************************************)
(* Model of the encrypted directory synchronisation protocol of            *)
(* src/src/bookshelf_manager/sync.py: SocketCommunication (framing, key    *)
(* derivation, handshake), SyncServer.start and SyncClient.start.          *)
(*                                                                         *)
(* One TCP connection is modelled as two FIFO queues of frames (s2c, c2s). *)
(* A frame is the payload of one send_bytes call; the 8-byte length header *)
(* is part of the frame.  Closing a socket is an orderly close: the peer   *)
(* still reads the frames already written and then sees end of stream      *)
(* (recv returns b"", SocketClosedError).                                  *)
(***************************************************************************)
EXTENDS Integers, Sequences, FiniteSets, TLC

\* ---------------------------------------------------------------- bounds
NumContents == 2
NumSalts == 1
MaxRuns == 2
MaxExclude == 1

\* ------------------------------------------------------------ file trees
Paths == {"a.txt", "b", "b/c.txt"}
Parent(p) == IF p = "b/c.txt" THEN "b" ELSE "."

Contents == 1..NumContents
Absent == [type |-> "absent", data |-> 0]
DirNode == [type |-> "dir", data |-> 0]
FileNode(d) == [type |-> "file", data |-> d]
Nodes == {Absent, DirNode} \cup {FileNode(d) : d \in Contents}

\* a tree is well formed when every entry lives in a directory
ValidTree(t) ==
    \A p \in Paths : (t[p].type # "absent" /\ Parent(p) # ".") => t[Parent(p)].type = "dir"

\* a path that is a directory only because it has children
HasChild(t, p) == \E q \in Paths : Parent(q) = p /\ t[q].type # "absent"

ClientTrees == {t \in [Paths -> Nodes] : ValidTree(t) /\ t["a.txt"].type # "dir"}
\* the server only looks at regular files: empty directories are invisible to it
ServerTrees == {t \in ClientTrees : \A p \in Paths : t[p].type = "dir" => HasChild(t, p)}

IsFile(t, p) == t[p].type = "file"
Exists(t, p) == t[p].type # "absent"
Files(t) == {p \in Paths : IsFile(t, p)}

\* ------------------------------------------------------------ crypto
RawPasswords == {"cafe_nfd", "cafe_nfc", "other"}
ServerRawPasswords == {"cafe_nfd"}
\* unicodedata.normalize("NFC", password)
Normalize(p) == IF p = "cafe_nfd" THEN "cafe_nfc" ELSE p

Salts == 1..NumSalts
NoKey == <<"none", 0>>
\* a key derivation that leaves the password out
DeriveKeyFromSalt(pw, salt) == <<"", salt>>

\* setup_key: PBKDF2-HMAC-SHA256 of (password, salt), taken as injective
DeriveKey(pw, salt) == <<pw, salt>>
\* sha256(...).hexdigest(), taken as injective
Sha256(x) == <<"sha256", x>>

\* a send_bytes that never encrypts
FrameInClear(key, body, encrypt) == [enc |-> NoKey, body |-> body]

\* send_bytes: the payload is encrypted when encrypt is set
Frame(key, body, encrypt) == [enc |-> IF encrypt THEN key ELSE NoKey, body |-> body]

\* a decrypt that returns the payload of whatever it is given
OpensAnything(f, key, decrypt) == TRUE

\* decrypt in receive_bytes: a token opens only under the key that made it
Opens(f, key, decrypt) == IF decrypt THEN f.enc = key ELSE TRUE
Plain(f, decrypt) == IF decrypt \/ f.enc = NoKey THEN f.body ELSE [raw |-> 0]

\* receive_info on the stream q: the exception it raises, "none" when it returns
\* a dict holding the key the caller reads next
ReceiveInfoExc(q, key, decrypt, field) ==
    IF q = <<>> THEN "SocketClosedError"
    ELSE IF ~Opens(Head(q), key, decrypt) THEN "InvalidToken"
    ELSE IF "raw" \in DOMAIN Plain(Head(q), decrypt) THEN "JSONDecodeError"
    ELSE IF field \notin DOMAIN Plain(Head(q), decrypt) THEN "KeyError"
    ELSE "none"

\* receive_bytes on the stream q
ReceiveBytesExc(q, key, decrypt) ==
    IF q = <<>> THEN "SocketClosedError"
    ELSE IF ~Opens(Head(q), key, decrypt) THEN "InvalidToken"
    ELSE "none"

\* ------------------------------------------------------------ state
VARIABLES
    spw, cpw,          \* SocketCommunication.password of server and client
    skey, ckey,        \* key behind SocketCommunication.f (NoKey: f is None)
    stree, ctree,      \* directory trees under the two roots
    sroot, croot,      \* the two root directories: "dir" or "absent"
    exclude, strict,   \* arguments of SyncClient.start
    patterns,          \* exclude_patterns as the caller passes it, if it does
    s2c, c2s,          \* frames written and not yet read, per direction
    lsock, conn, csock,\* server_socket, accepted clientsocket, client_socket
    closes,            \* number of close() calls per socket
    spc, cpc,          \* position of SyncServer.start / SyncClient.start
    filepaths, idx,    \* server enumeration and loop position
    cinfo,             \* offer the client is answering
    sexc, sexcAt,      \* exception raised in the server and where
    cexc, cexcAt,      \* exception raised in the client and where
    sres, cres,        \* outcome of start: "running", "ok" or the exception
    run,               \* number of the sync session
    wire,              \* every frame written in this session, in order
    ctree0,            \* client tree when the session started
    cfile,             \* path named by the file message being received
    firstDone,         \* the previous session ran to completion
    fx, fenc,          \* send_bytes(data, encrypt) of the frame under study
    fnext,             \* bytes of the frame sent right after it
    fout,              \* bytes the sender has not written yet
    fstream,           \* bytes written and not yet returned by recv
    fclosed,           \* the sending end is closed
    fpc,               \* position of receive_bytes
    fdata,             \* data of receive_num_bytes, then all_data
    fmsglen,           \* msglen
    fret,              \* what receive_bytes returned
    fread,             \* number of bytes recv has returned
    famount,           \* amount of the send_num_bytes call under study
    fsend,             \* position of that call
    fnum               \* what receive_num_bytes returned

vars == <<spw, cpw, skey, ckey, stree, ctree, sroot, croot, exclude, strict, patterns, s2c, c2s,
          lsock, conn, csock, closes, spc, cpc, filepaths, idx, cinfo,
          sexc, sexcAt, cexc, cexcAt, sres, cres, run, wire, ctree0, cfile,
          firstDone, fx, fenc, fnext, fout, fstream, fclosed, fpc, fdata, fmsglen,
          fret, fread, famount, fsend, fnum>>

\* the byte-level stream of one frame; no step of a session touches it
framing == <<fx, fenc, fnext, fout, fstream, fclosed, fpc, fdata, fmsglen, fret, fread,
             famount, fsend, fnum>>

args == <<spw, cpw, exclude, strict, patterns>>
server == <<skey, sroot, stree, spc, filepaths, idx, sexc, sexcAt, sres>>
client == <<ckey, croot, cpc, cinfo, cfile, cexc, cexcAt, cres, ctree>>
socks == <<lsock, conn, csock, closes>>
ghost == <<run, ctree0, firstDone>>

NoInfo == [path |-> ".", hash |-> Sha256(0)]

\* the glob patterns a caller may pass as exclude_patterns
GlobPatterns == {"**/c.txt"}
\* the calls of SyncClient.start: without exclude_patterns, or with it as
\* Librarian.sync passes it
PatternArgs == {[given |-> FALSE, globs |-> {}]}
               \cup {[given |-> TRUE, globs |-> g] : g \in {GlobPatterns}}

\* no frame under study
FrameIdle ==
    /\ fx = <<>> /\ fenc = FALSE /\ fnext = <<>> /\ fout = <<>>
    /\ fstream = <<>> /\ fclosed = FALSE
    /\ fpc = "idle" /\ fdata = <<>> /\ fmsglen = 0 /\ fret = <<>> /\ fread = 0
    /\ famount = [neg |-> FALSE, mag |-> <<>>] /\ fsend = "idle" /\ fnum = <<>>

\* the two commands as they can be started
Arguments ==
    /\ spw \in {Normalize(p) : p \in ServerRawPasswords}
    /\ cpw \in {Normalize(p) : p \in RawPasswords}
    /\ stree \in ServerTrees
    /\ sroot \in (IF \A p \in Paths : stree[p] = Absent THEN {"dir", "absent"} ELSE {"dir"})
    /\ ctree \in ClientTrees
    /\ croot \in (IF \A p \in Paths : ctree[p] = Absent THEN {"dir", "absent"} ELSE {"dir"})
    /\ exclude \in {e \in SUBSET Paths : Cardinality(e) <= MaxExclude}
    /\ strict \in BOOLEAN
    /\ patterns \in PatternArgs

\* SyncServer and SyncClient right after construction
Constructed ==
    /\ skey = NoKey /\ ckey = NoKey
    /\ s2c = <<>> /\ c2s = <<>>
    /\ lsock = "listening" /\ conn = "none" /\ csock = "created"
    /\ closes = [l |-> 0, a |-> 0, c |-> 0]
    /\ spc = "accept" /\ cpc = "mkdir"
    /\ filepaths = <<>> /\ idx = 1
    /\ cinfo = NoInfo /\ cfile = "."
    /\ sexc = "none" /\ sexcAt = "none"
    /\ cexc = "none" /\ cexcAt = "none"
    /\ sres = "running" /\ cres = "running"
    /\ run = 1
    /\ wire = <<>>
    /\ ctree0 = ctree
    /\ firstDone = FALSE

Init == FrameIdle /\ Arguments /\ Constructed

\* ------------------------------------------------------------ stream
\* the server writes one frame: it is queued for the client, or dropped when
\* the client has already closed its socket
ServerWrites(f) ==
    /\ s2c' = IF csock = "closed" THEN s2c ELSE Append(s2c, f)
    /\ wire' = Append(wire, [from |-> "server", frame |-> f])

ClientWrites(f) ==
    /\ c2s' = IF conn = "closed" THEN c2s ELSE Append(c2s, f)
    /\ wire' = Append(wire, [from |-> "client", frame |-> f])

\* a blocking read returns when a frame is there or the peer has closed
ServerCanRead == c2s # <<>> \/ csock = "closed"
ClientCanRead == s2c # <<>> \/ conn = "closed"

\* ------------------------------------------------------------ server
\* an exception raised inside the try block of SyncServer.start
ServerRaises(e) ==
    /\ spc' = "finally" /\ sexc' = e /\ sexcAt' = spc

\* send_info / send_bytes inside the try block: sendall fails or not when the
\* client is gone
ServerSends(f, next) ==
    \/ /\ ServerWrites(f)
       /\ spc' = next
       /\ UNCHANGED <<sexc, sexcAt>>
    \/ /\ csock = "closed"
       /\ ServerRaises("BrokenPipeError")
       /\ UNCHANGED <<s2c, wire>>

\* [path for path in root.rglob("*") if path.is_file()], in some order
Enumerations(t) ==
    {s \in [1..Cardinality(Files(t)) -> Files(t)] :
        \A i, j \in DOMAIN s : i # j => s[i] # s[j]}

S_Accept ==
    /\ spc = "accept" /\ conn = "pending"
    /\ conn' = "open"
    /\ spc' = "send_salt"
    /\ UNCHANGED <<args, framing, sroot, stree, client, ghost, skey, filepaths, idx, sexc, sexcAt, sres,
                   s2c, c2s, wire, lsock, csock, closes>>

S_SendSalt ==
    /\ spc = "send_salt"
    /\ \E salt \in Salts :
          /\ ServerWrites(Frame(skey, [raw |-> salt], FALSE))
          /\ skey' = DeriveKey(spw, salt)
    /\ spc' = "send_hash"
    /\ UNCHANGED <<args, framing, sroot, stree, client, ghost, socks, filepaths, idx, sexc, sexcAt, sres, c2s>>

\* a verification message that carries the key itself
VerifierIsKey(key) == key

\* the value of {"hash": ...} in server_handshake
Verifier(key) == Sha256(key)

S_SendHash ==
    /\ spc = "send_hash"
    /\ ServerWrites(Frame(skey, [hash |-> Verifier(skey)], FALSE))
    /\ spc' = "mkdir"
    /\ UNCHANGED <<args, framing, sroot, stree, client, ghost, socks, skey, filepaths, idx, sexc, sexcAt,
                   sres, c2s>>

\* directory.mkdir(exist_ok=True); os.chdir(directory)
S_Mkdir ==
    /\ spc = "mkdir"
    /\ sroot' = "dir"
    /\ spc' = "recv_strict"
    /\ UNCHANGED <<args, framing, stree, client, ghost, socks, skey, filepaths, idx, sexc, sexcAt,
                   sres, c2s, s2c, wire>>

\* a server that sends the manifest whatever the client asked for
SendsManifestAlways(info) == TRUE

\* if info["strict"]:
SendsManifest(info) == info.strict

S_RecvStrict ==
    /\ spc = "recv_strict" /\ ServerCanRead
    /\ LET e == ReceiveInfoExc(c2s, skey, TRUE, "strict") IN
         IF e # "none"
         THEN /\ ServerRaises(e)
              /\ UNCHANGED <<c2s, filepaths>>
         ELSE /\ c2s' = Tail(c2s)
              /\ filepaths' \in Enumerations(stree)
              /\ spc' = IF SendsManifest(Head(c2s).body) THEN "send_manifest" ELSE "loop"
              /\ UNCHANGED <<sexc, sexcAt>>
    /\ UNCHANGED <<args, framing, sroot, stree, client, ghost, socks, skey, idx, sres, s2c, wire>>

IsTopLevel(p) == Parent(p) = "."
\* a manifest taken from a walk of the root only
ManifestPathsTopLevel(fp) == SelectSeq(fp, IsTopLevel)

\* [str(path) for path in filepaths]
ManifestPaths(fp) == fp

S_SendManifest ==
    /\ spc = "send_manifest"
    /\ ServerSends(Frame(skey, [paths |-> ManifestPaths(filepaths)], TRUE), "loop")
    /\ UNCHANGED <<args, framing, sroot, stree, client, ghost, socks, skey, filepaths, idx, sres, c2s>>

\* a server that waits for the next client when the enumeration is over
AfterEnumerationAcceptAgain == "accept"

\* where start goes when the for loop is exhausted: to the finally clause
AfterEnumeration == "finally"

\* head of the for loop: the next offer, or the end of the enumeration
S_Loop ==
    /\ spc = "loop"
    /\ IF idx > Len(filepaths)
       THEN /\ spc' = AfterEnumeration
            /\ UNCHANGED <<sexc, sexcAt, s2c, wire>>
       ELSE ServerSends(Frame(skey, [path |-> filepaths[idx],
                                     hash |-> Sha256(stree[filepaths[idx]].data)], TRUE),
                        "recv_wanted")
    /\ UNCHANGED <<args, framing, sroot, stree, client, ghost, socks, skey, filepaths, idx, sres, c2s>>

\* a loop that skips the file after the one just handled
NextIndexSkip(i) == i + 2

\* the for loop moves to the next path of filepaths
NextIndex(i) == i + 1

S_RecvWanted ==
    /\ spc = "recv_wanted" /\ ServerCanRead
    /\ LET e == ReceiveInfoExc(c2s, skey, TRUE, "wanted") IN
         IF e # "none"
         THEN /\ ServerRaises(e)
              /\ UNCHANGED <<c2s, idx>>
         ELSE /\ c2s' = Tail(c2s)
              /\ IF Head(c2s).body.wanted
                 THEN spc' = "send_filemsg" /\ idx' = idx
                 ELSE spc' = "loop" /\ idx' = NextIndex(idx)
              /\ UNCHANGED <<sexc, sexcAt>>
    /\ UNCHANGED <<args, framing, sroot, stree, client, ghost, socks, skey, filepaths, sres, s2c, wire>>

\* a send_file that names another file than the one it sends
SentPathOther(p) == IF p = "a.txt" THEN "b/c.txt" ELSE "a.txt"

\* "path": str(filepath)
SentPath(p) == p

\* send_file: the {"type": "file"} message ...
S_SendFileMsg ==
    /\ spc = "send_filemsg"
    /\ ServerSends(Frame(skey, [type |-> "file", path |-> SentPath(filepaths[idx])], TRUE),
                   "send_data")
    /\ UNCHANGED <<args, framing, sroot, stree, client, ghost, socks, skey, filepaths, idx, sres, c2s>>

\* a send_file that moves the file out of the tree once it is sent
SendFileMoves(t, p) == [t EXCEPT ![p] = Absent]

\* what send_file leaves of the server's tree: read_bytes only reads
AfterSendFile(t, p) == t

\* ... and the content frame
S_SendData ==
    /\ spc = "send_data"
    /\ ServerSends(Frame(skey, [raw |-> stree[filepaths[idx]].data], TRUE), "loop")
    /\ idx' = IF spc' = "loop" THEN NextIndex(idx) ELSE idx
    /\ stree' = IF spc' = "loop" THEN AfterSendFile(stree, filepaths[idx]) ELSE stree
    /\ UNCHANGED <<args, framing, sroot, client, ghost, socks, skey, filepaths, sres, c2s>>

\* path.read_bytes() fails (the file was removed or cannot be read): in the
\* loop before the offer, or in send_file before the file message
S_ReadFails ==
    /\ \/ spc = "loop" /\ idx <= Len(filepaths)
       \/ spc = "send_filemsg"
    /\ ServerRaises("OSError")
    /\ UNCHANGED <<args, framing, sroot, stree, client, ghost, socks, skey, filepaths, idx, sres,
                   s2c, c2s, wire>>

\* a server that also swallows file errors
ServerCatchesOSError(e) == e \in {"none", "KeyboardInterrupt", "OSError"}

\* the except clause of SyncServer.start
ServerCatches(e) == e \in {"none", "KeyboardInterrupt"}

\* finally: shutdown and close of the connection; server_socket.close() runs
\* only when no exception leaves the try statement
S_Finally ==
    /\ spc = "finally"
    /\ conn' = "closed"
    /\ IF ServerCatches(sexc)
       THEN /\ lsock' = "closed"
            /\ closes' = [closes EXCEPT !.a = @ + 1, !.l = @ + 1]
            /\ sres' = "ok"
       ELSE /\ lsock' = lsock
            /\ closes' = [closes EXCEPT !.a = @ + 1]
            /\ sres' = sexc
    /\ spc' = "done"
    /\ UNCHANGED <<args, framing, sroot, stree, client, ghost, skey, filepaths, idx, sexc, sexcAt,
                   s2c, c2s, wire, csock>>

\* the positions inside the try block of SyncServer.start
ServerTryPcs == {"recv_strict", "send_manifest", "loop", "recv_wanted",
                 "send_filemsg", "send_data"}
InServerTry == spc \in ServerTryPcs

\* KeyboardInterrupt delivered to the server process
S_Interrupt ==
    /\ spc \in {"accept", "send_salt", "send_hash", "mkdir"} \/ InServerTry
    /\ sexc' = "KeyboardInterrupt" /\ sexcAt' = spc
    /\ IF InServerTry
       THEN spc' = "finally" /\ sres' = sres
       ELSE spc' = "done" /\ sres' = "KeyboardInterrupt"
    /\ UNCHANGED <<args, framing, sroot, stree, client, ghost, socks, skey, filepaths, idx, s2c, c2s, wire>>

\* ------------------------------------------------------------ client
\* a first loop that unlinks nothing
DeleteFilesNone(t, keep, excl) == t

\* a first loop that walks the root only (glob instead of rglob)
DeleteFilesTopLevel(t, keep, excl) ==
    [p \in Paths |-> IF IsFile(t, p) /\ Parent(p) = "." /\ p \notin keep /\ p \notin excl
                     THEN Absent ELSE t[p]]

\* a first loop that forgets exclude_paths
DeleteFilesIgnoreExclude(t, keep, excl) ==
    [p \in Paths |-> IF IsFile(t, p) /\ p \notin keep THEN Absent ELSE t[p]]

\* strict mode, first loop: unlink every file that is neither in the manifest
\* nor excluded
DeleteFiles(t, keep, excl) ==
    [p \in Paths |-> IF IsFile(t, p) /\ p \notin keep /\ p \notin excl
                     THEN Absent ELSE t[p]]

\* strict mode, second loop: it walks what is left of pathiter, the generator
\* the first loop has already run to its end
LeftOfPathiter(t) == {}

DeleteEmptyDirs(t, excl) ==
    [p \in Paths |-> IF /\ p \in LeftOfPathiter(t)
                        /\ t[p].type = "dir" /\ p \notin excl /\ ~HasChild(t, p)
                     THEN Absent ELSE t[p]]

Prune(t, keep, excl) == DeleteEmptyDirs(DeleteFiles(t, keep, excl), excl)

\* a fetch loop that skips every file the client already has, whatever its hash
ClientDecisionNoHash(t, excl, info) ==
    IF info.path \in excl THEN "refuse"
    ELSE IF ~Exists(t, info.path) THEN "get"
    ELSE IF t[info.path].type = "dir" THEN "IsADirectoryError"
    ELSE "refuse"

\* a fetch loop that does not look at exclude_paths
ClientDecisionNoExclude(t, excl, info) ==
    IF ~Exists(t, info.path) THEN "get"
    ELSE IF t[info.path].type = "dir" THEN "IsADirectoryError"
    ELSE IF info.hash # Sha256(t[info.path].data) THEN "get"
    ELSE "refuse"

\* a fetch loop that asks for every file that is not excluded
ClientDecisionAlways(t, excl, info) ==
    IF info.path \in excl THEN "refuse"
    ELSE IF ~Exists(t, info.path) THEN "get"
    ELSE IF t[info.path].type = "dir" THEN "IsADirectoryError"
    ELSE "get"

\* the branch the fetch loop takes for an offer: "get", "refuse", or the
\* exception of filepath.read_bytes()
ClientDecision(t, excl, info) ==
    IF info.path \in excl THEN "refuse"
    ELSE IF ~Exists(t, info.path) THEN "get"
    ELSE IF t[info.path].type = "dir" THEN "IsADirectoryError"
    ELSE IF "hash" \notin DOMAIN info THEN "KeyError"
    ELSE IF info.hash # Sha256(t[info.path].data) THEN "get"
    ELSE "refuse"

\* a mkdir that replaces a file standing where the directory has to be
MkdirParentClobber(t, p) ==
    IF Parent(p) = "." \/ t[Parent(p)].type = "dir" THEN [exc |-> "none", tree |-> t]
    ELSE [exc |-> "none", tree |-> [t EXCEPT ![Parent(p)] = DirNode]]

\* filepath.parent.mkdir(parents=True, exist_ok=True): the exception it raises
\* and the tree it leaves
MkdirParent(t, p) ==
    IF Parent(p) = "." \/ t[Parent(p)].type = "dir" THEN [exc |-> "none", tree |-> t]
    ELSE IF t[Parent(p)].type = "file" THEN [exc |-> "FileExistsError", tree |-> t]
    ELSE [exc |-> "none", tree |-> [t EXCEPT ![Parent(p)] = DirNode]]

\* path.write_bytes(file)
WriteBytesExc(t, p) ==
    IF p \notin Paths THEN "IsADirectoryError"
    ELSE IF t[p].type = "dir" THEN "IsADirectoryError"
    ELSE IF Parent(p) # "." /\ t[Parent(p)].type = "absent" THEN "FileNotFoundError"
    ELSE IF Parent(p) # "." /\ t[Parent(p)].type = "file" THEN "NotADirectoryError"
    ELSE "none"
\* a write that leaves the file empty
WriteBytesTruncated(t, p, d) == [t EXCEPT ![p] = FileNode(0)]

WriteBytes(t, p, d) == [t EXCEPT ![p] = FileNode(d)]

\* an exception raised before the try block of SyncClient.start: it leaves
\* start at once
ClientFails(e) ==
    /\ cpc' = "done" /\ cres' = e /\ cexc' = e /\ cexcAt' = cpc

\* an exception raised inside the try block
ClientRaises(e) ==
    /\ cpc' = "finally" /\ cexc' = e /\ cexcAt' = cpc /\ cres' = cres

ClientSends(f, next) ==
    \/ /\ ClientWrites(f)
       /\ cpc' = next
       /\ UNCHANGED <<cexc, cexcAt, cres>>
    \/ /\ conn = "closed"
       /\ ClientRaises("BrokenPipeError")
       /\ UNCHANGED <<c2s, wire>>

\* the parameters of SyncClient.start
StartKeywords == {"directory", "server_addr", "exclude_paths", "strict"}
\* the keyword arguments of the call
CallKeywords(p) ==
    StartKeywords \cup (IF p.given THEN {"exclude_patterns"} ELSE {})
\* Python binds the call only when start has a parameter for every keyword
StartBinds(p) == CallKeywords(p) \subseteq StartKeywords

\* the TypeError of a call with a keyword the function does not have
UnexpectedKeyword == "TypeError: unexpected keyword argument"

\* the call of start, then mkdir and chdir
C_Mkdir ==
    /\ cpc = "mkdir"
    /\ IF StartBinds(patterns)
       THEN cpc' = "connect" /\ croot' = "dir" /\ UNCHANGED <<cexc, cexcAt, cres>>
       ELSE ClientFails(UnexpectedKeyword) /\ croot' = croot
    /\ UNCHANGED <<args, framing, server, ghost, socks, ckey, cinfo, cfile,
                   ctree, s2c, c2s, wire>>

C_Connect ==
    /\ cpc = "connect"
    /\ lsock = "listening" /\ conn = "none"
    /\ csock' = "connected" /\ conn' = "pending"
    /\ cpc' = "recv_salt"
    /\ UNCHANGED <<args, framing, croot, server, ghost, lsock, closes, ckey, cinfo, cfile, cexc, cexcAt,
                   cres, ctree, s2c, c2s, wire>>

\* connect refused or timed out
C_ConnectFail ==
    /\ cpc = "connect"
    /\ ClientFails("ConnectionRefusedError")
    /\ UNCHANGED <<args, framing, croot, server, ghost, socks, ckey, cinfo, cfile, ctree, s2c, c2s, wire>>

\* client_handshake: the salt, then setup_key
C_RecvSalt ==
    /\ cpc = "recv_salt" /\ ClientCanRead
    /\ LET e == ReceiveBytesExc(s2c, ckey, FALSE) IN
         IF e # "none"
         THEN /\ ClientFails(e)
              /\ UNCHANGED <<s2c, ckey>>
         ELSE /\ s2c' = Tail(s2c)
              /\ ckey' = DeriveKey(cpw, IF "raw" \in DOMAIN Plain(Head(s2c), FALSE)
                                        THEN Plain(Head(s2c), FALSE).raw ELSE 0)
              /\ cpc' = "recv_hash"
              /\ UNCHANGED <<cexc, cexcAt, cres>>
    /\ UNCHANGED <<args, framing, croot, server, ghost, socks, cinfo, cfile, ctree, c2s, wire>>

\* a handshake that accepts any hash
HashMatchesAny(hash, key) == TRUE

\* the comparison of client_handshake
HashMatches(hash, key) == hash = Sha256(key)

C_RecvHash ==
    /\ cpc = "recv_hash" /\ ClientCanRead
    /\ LET e == ReceiveInfoExc(s2c, ckey, FALSE, "hash") IN
         IF e # "none"
         THEN /\ ClientFails(e)
              /\ UNCHANGED s2c
         ELSE /\ s2c' = Tail(s2c)
              /\ IF HashMatches(Plain(Head(s2c), FALSE).hash, ckey)
                 THEN cpc' = "send_strict" /\ UNCHANGED <<cexc, cexcAt, cres>>
                 ELSE ClientFails("PasswordMismatchError")
    /\ UNCHANGED <<args, framing, croot, server, ghost, socks, ckey, cinfo, cfile, ctree, c2s, wire>>

\* a client that never reads the manifest
AfterStrictNoManifest(st) == "recv_offer"

\* what follows send_info({"strict": strict}): the manifest is read in strict
\* mode only
AfterStrict(st) == IF st THEN "recv_manifest" ELSE "recv_offer"

C_SendStrict ==
    /\ cpc = "send_strict"
    /\ \/ /\ ClientWrites(Frame(ckey, [strict |-> strict], TRUE))
          /\ cpc' = AfterStrict(strict)
          /\ UNCHANGED <<cexc, cexcAt, cres>>
       \/ /\ conn = "closed"
          /\ ClientFails("BrokenPipeError")
          /\ UNCHANGED <<c2s, wire>>
    /\ UNCHANGED <<args, framing, croot, server, ghost, socks, ckey, cinfo, cfile, ctree, s2c>>

\* strict mode: the manifest, then the two delete loops
C_RecvManifest ==
    /\ cpc = "recv_manifest" /\ ClientCanRead
    /\ LET e == ReceiveInfoExc(s2c, ckey, TRUE, "paths") IN
         IF e # "none"
         THEN /\ ClientFails(e)
              /\ UNCHANGED <<s2c, ctree>>
         ELSE /\ s2c' = Tail(s2c)
              /\ ctree' = Prune(ctree, {Head(s2c).body.paths[i] :
                                          i \in DOMAIN Head(s2c).body.paths}, exclude)
              /\ cpc' = "recv_offer"
              /\ UNCHANGED <<cexc, cexcAt, cres>>
    /\ UNCHANGED <<args, framing, croot, server, ghost, socks, ckey, cinfo, cfile, c2s, wire>>

\* head of the while loop: the offer and the choice between get_file and
\* refuse_file
C_RecvOffer ==
    /\ cpc = "recv_offer" /\ ClientCanRead
    /\ LET e == ReceiveInfoExc(s2c, ckey, TRUE, "path") IN
         IF e # "none"
         THEN /\ ClientRaises(e)
              /\ UNCHANGED <<s2c, cinfo>>
         ELSE LET d == ClientDecision(ctree, exclude, Head(s2c).body) IN
              /\ s2c' = Tail(s2c)
              /\ cinfo' = Head(s2c).body
              /\ IF d \in {"get", "refuse"}
                 THEN cpc' = d /\ UNCHANGED <<cexc, cexcAt, cres>>
                 ELSE ClientRaises(d)
    /\ UNCHANGED <<args, framing, croot, server, ghost, socks, ckey, cfile, ctree, c2s, wire>>

C_Refuse ==
    /\ cpc = "refuse"
    /\ ClientSends(Frame(ckey, [wanted |-> FALSE], TRUE), "recv_offer")
    /\ UNCHANGED <<args, framing, croot, server, ghost, socks, ckey, cinfo, cfile, ctree, s2c>>

\* get_file: {"wanted": True} ...
C_Get ==
    /\ cpc = "get"
    /\ ClientSends(Frame(ckey, [wanted |-> TRUE], TRUE), "get_mkdir")
    /\ UNCHANGED <<args, framing, croot, server, ghost, socks, ckey, cinfo, cfile, ctree, s2c>>

\* ... the parent directories ...
C_GetMkdir ==
    /\ cpc = "get_mkdir"
    /\ LET m == MkdirParent(ctree, cinfo.path) IN
         /\ ctree' = m.tree
         /\ IF m.exc # "none"
            THEN ClientRaises(m.exc)
            ELSE cpc' = "recv_filemsg" /\ UNCHANGED <<cexc, cexcAt, cres>>
    /\ UNCHANGED <<args, framing, croot, server, ghost, socks, ckey, cinfo, cfile, s2c, c2s, wire>>

\* ... receive_file: the file message ...
C_RecvFileMsg ==
    /\ cpc = "recv_filemsg" /\ ClientCanRead
    /\ LET e == ReceiveInfoExc(s2c, ckey, TRUE, "type") IN
         IF e # "none"
         THEN /\ ClientRaises(e)
              /\ UNCHANGED <<s2c, cfile>>
         ELSE /\ s2c' = Tail(s2c)
              /\ IF Head(s2c).body.type # "file"
                 THEN ClientRaises("TypeError") /\ UNCHANGED cfile
                 ELSE /\ cfile' = Head(s2c).body.path
                      /\ cpc' = "recv_data"
                      /\ UNCHANGED <<cexc, cexcAt, cres>>
    /\ UNCHANGED <<args, framing, croot, server, ghost, socks, ckey, cinfo, ctree, c2s, wire>>

\* a receive_file that opens the target for writing before the content is in
OpenedBeforeReceive(t, p) ==
    IF p \in Paths /\ WriteBytesExc(t, p) = "none" THEN [t EXCEPT ![p] = FileNode(0)] ELSE t

\* receive_file when receive_bytes raises: write_bytes is not reached
AfterFailedReceive(t, p) == t

\* ... and the content frame, written to the path of the file message
C_RecvData ==
    /\ cpc = "recv_data" /\ ClientCanRead
    /\ LET e == ReceiveBytesExc(s2c, ckey, TRUE) IN
         IF e # "none"
         THEN /\ ClientRaises(e)
              /\ ctree' = AfterFailedReceive(ctree, cfile)
              /\ UNCHANGED s2c
         ELSE /\ s2c' = Tail(s2c)
              /\ IF WriteBytesExc(ctree, cfile) # "none"
                 THEN ClientRaises(WriteBytesExc(ctree, cfile)) /\ UNCHANGED ctree
                 ELSE /\ ctree' = WriteBytes(ctree, cfile,
                                     IF "raw" \in DOMAIN Head(s2c).body
                                     THEN Head(s2c).body.raw ELSE 0)
                      /\ cpc' = "recv_offer"
                      /\ UNCHANGED <<cexc, cexcAt, cres>>
    /\ UNCHANGED <<args, framing, croot, server, ghost, socks, ckey, cinfo, cfile, c2s, wire>>

\* a client without the except clause
ClientCatchesNothing(e) == FALSE

\* a client with a bare except
ClientCatchesAll(e) == TRUE

\* the except clause of SyncClient.start
ClientCatches(e) == e = "SocketClosedError"

\* finally: shutdown and close of client_socket
C_Finally ==
    /\ cpc = "finally"
    /\ csock' = "closed"
    /\ closes' = [closes EXCEPT !.c = @ + 1]
    /\ cres' = IF ClientCatches(cexc) THEN "ok" ELSE cexc
    /\ cpc' = "done"
    /\ UNCHANGED <<args, framing, croot, server, ghost, ckey, cinfo, cfile, cexc, cexcAt, ctree,
                   s2c, c2s, wire, lsock, conn>>

\* start was left by an exception raised before the try block, with
\* client_socket open: the descriptor is closed when the interpreter reclaims
\* the SyncClient object or the process exits, if and when that happens
C_SocketReclaimed ==
    /\ cpc = "done" /\ csock = "connected"
    /\ csock' = "closed"
    /\ UNCHANGED <<args, framing, server, client, ghost, lsock, conn, closes, s2c, c2s, wire>>

\* ------------------------------------------------------------ sessions
\* the server finished its enumeration and the client saw the stream end
\* while waiting for an offer
Completed ==
    /\ spc = "done" /\ sres = "ok" /\ sexc = "none"
    /\ cpc = "done" /\ cres = "ok" /\ cexcAt = "recv_offer"

\* both commands returned; they are run again on the same two directories
Restart ==
    /\ spc = "done" /\ cpc = "done" /\ sres = "ok" /\ cres = "ok"
    /\ run < MaxRuns
    /\ run' = run + 1
    /\ firstDone' = Completed
    /\ ctree0' = ctree
    /\ skey' = NoKey /\ ckey' = NoKey
    /\ s2c' = <<>> /\ c2s' = <<>> /\ wire' = <<>>
    /\ lsock' = "listening" /\ conn' = "none" /\ csock' = "created"
    /\ closes' = [l |-> 0, a |-> 0, c |-> 0]
    /\ spc' = "accept" /\ cpc' = "mkdir"
    /\ filepaths' = <<>> /\ idx' = 1
    /\ cinfo' = NoInfo /\ cfile' = "."
    /\ sexc' = "none" /\ sexcAt' = "none"
    /\ cexc' = "none" /\ cexcAt' = "none"
    /\ sres' = "running" /\ cres' = "running"
    /\ UNCHANGED <<args, framing, sroot, stree, croot, ctree>>

ServerStep ==
    \/ S_Accept \/ S_SendSalt \/ S_SendHash \/ S_Mkdir \/ S_RecvStrict
    \/ S_SendManifest \/ S_Loop \/ S_RecvWanted \/ S_SendFileMsg \/ S_SendData
    \/ S_Finally

ClientStep ==
    \/ C_Mkdir \/ C_Connect \/ C_RecvSalt \/ C_RecvHash \/ C_SendStrict
    \/ C_RecvManifest \/ C_RecvOffer \/ C_Refuse \/ C_Get \/ C_GetMkdir
    \/ C_RecvFileMsg \/ C_RecvData \/ C_Finally

Next ==
    \/ ServerStep \/ ClientStep \/ S_Interrupt \/ S_ReadFails
    \/ C_ConnectFail \/ C_SocketReclaimed
    \/ Restart

Spec == Init /\ [][Next]_vars

\* ------------------------------------------------------------ the wire
Body(i) == wire[i].frame.body
IsOffer(i, p) ==
    /\ wire[i].from = "server" /\ "path" \in DOMAIN Body(i) /\ "hash" \in DOMAIN Body(i)
    /\ Body(i).path = p
IsWanted(i, b) ==
    /\ wire[i].from = "client" /\ "wanted" \in DOMAIN Body(i)
    /\ Body(i).wanted = b
IsFileMsg(i, p) ==
    /\ wire[i].from = "server" /\ "type" \in DOMAIN Body(i)
    /\ Body(i).path = p
IsSalt(i) == wire[i].from = "server" /\ wire[i].frame.enc = NoKey /\ "raw" \in DOMAIN Body(i)
IsHash(i) ==
    /\ wire[i].from = "server" /\ wire[i].frame.enc = NoKey
    /\ DOMAIN Body(i) = {"hash"}
\* an encrypted frame of raw bytes: file content
IsData(i) == wire[i].from = "server" /\ wire[i].frame.enc # NoKey /\ "raw" \in DOMAIN Body(i)

EmptyTree == [p \in Paths |-> Absent]

\* ------------------------------------------------------------ claims

\* C1: after a non-strict session between peers with the same password has
\* run to completion, every server file that the client does not exclude is
\* on the client at the same path with the same content; from an empty client
\* tree without exclusions the client tree equals the server tree.
C1_NonStrictSyncCopies ==
    (~strict /\ Completed) =>
        /\ \A p \in Files(stree) : p \notin exclude => ctree[p] = stree[p]
        /\ (ctree0 = EmptyTree /\ exclude = {}) => ctree = stree

C1_Witness ==
    /\ ~strict /\ Completed /\ run = 1
    /\ ctree0 = EmptyTree /\ exclude = {}
    /\ Files(stree) = {"a.txt", "b/c.txt"}
    /\ ctree = stree

\* C2 as stated: after a completed strict session no stale file is left and
\* the client's non-excluded files are exactly the server's files.
C2_Original ==
    (strict /\ Completed) =>
        /\ \A p \in Files(ctree) : p \notin Files(stree) => p \in exclude
        /\ Files(ctree) \ exclude = Files(stree)

\* C2 (amended): after a completed strict session no file is left on the
\* client whose path is absent from the server's manifest and not excluded,
\* and the client's non-excluded files are exactly the server's non-excluded
\* files.
C2_StrictMirrors ==
    (strict /\ Completed) =>
        /\ \A p \in Files(ctree) : p \notin Files(stree) => p \in exclude
        /\ Files(ctree) \ exclude = Files(stree) \ exclude

C2_Witness ==
    /\ strict /\ Completed /\ run = 1
    /\ IsFile(ctree0, "a.txt") /\ ~IsFile(stree, "a.txt") /\ "a.txt" \notin exclude
    /\ ~Exists(ctree, "a.txt")
    /\ Files(stree) # {}

\* C3: a non-strict session deletes nothing: a file the client had when the
\* session started and whose path the server does not offer is there with
\* the same content in every state of the session.
C3_NonStrictKeeps ==
    ~strict => \A p \in Files(ctree0) : p \notin Files(stree) => ctree[p] = ctree0[p]

C3_Witness ==
    /\ ~strict /\ cpc = "done" /\ spc = "done"
    /\ \E p \in Files(ctree0) : p \notin Files(stree) /\ ctree[p] = ctree0[p]
    /\ ctree # ctree0

\* C4: with different passwords the client's handshake ends in
\* PasswordMismatchError and the only frames ever written are the salt and
\* the password-verification message, both by the server.
C4_MismatchStopsSession ==
    cpw # spw =>
        /\ Len(wire) <= 2
        /\ \A i \in DOMAIN wire : IF i = 1 THEN IsSalt(i) ELSE IsHash(i)
        /\ cpc \in {"mkdir", "connect", "recv_salt", "recv_hash", "done"}
        /\ (cpc = "done" /\ cexcAt = "recv_hash") => cres = "PasswordMismatchError"
        /\ ctree = ctree0

C4_Witness ==
    /\ cpw # spw /\ cpc = "done" /\ cres = "PasswordMismatchError"
    /\ Len(wire) = 2 /\ strict

\* C5: for a path the client holds with the content the server has, the
\* client never answers the offer with wanted = true and neither a file
\* message nor a data frame for the path is written; the server writes a
\* file message only right after a wanted = true reply to the offer of that
\* path, and a data frame only right after a file message.
C5_MatchingHashNotSent ==
    /\ \A p \in Paths :
          (IsFile(ctree0, p) /\ IsFile(stree, p) /\ ctree0[p] = stree[p]) =>
              \A i \in DOMAIN wire :
                  /\ ~IsFileMsg(i, p)
                  /\ (IsOffer(i, p) /\ i < Len(wire)) => IsWanted(i + 1, FALSE)
    /\ \A i \in DOMAIN wire : \A p \in Paths :
          IsFileMsg(i, p) => i > 2 /\ IsWanted(i - 1, TRUE) /\ IsOffer(i - 2, p)
    /\ \A i \in DOMAIN wire :
          IsData(i) => i > 1 /\ \E p \in Paths : IsFileMsg(i - 1, p)

C5_Witness ==
    /\ Completed
    /\ \E p \in Paths \ exclude :
          /\ IsFile(ctree0, p) /\ ctree0[p] = stree[p]
          /\ \E i \in DOMAIN wire : IsOffer(i, p) /\ i < Len(wire) /\ IsWanted(i + 1, FALSE)
    /\ \E i \in DOMAIN wire : IsData(i)

\* C6: a second non-strict session after a completed first one fetches
\* nothing: no wanted = true reply, no file message, no data frame, and the
\* client tree stays what the first session left.
C6_SecondRunIdempotent ==
    (run = 2 /\ firstDone /\ ~strict) =>
        /\ \A i \in DOMAIN wire :
              ~IsWanted(i, TRUE) /\ ~IsData(i) /\ \A p \in Paths : ~IsFileMsg(i, p)
        /\ ctree = ctree0

C6_Witness ==
    /\ run = 2 /\ firstDone /\ ~strict /\ Completed
    /\ Cardinality({i \in DOMAIN wire : IsWanted(i, FALSE)}) = 2
    /\ exclude = {}

ProtocolErrors == {"KeyError", "JSONDecodeError", "TypeError", "InvalidToken"}

\* C7 as stated: neither side writes a frame while a frame it wrote earlier
\* is still unread, so every read finds exactly the frame written last.
C7_Original == Len(s2c) <= 1 /\ Len(c2s) <= 1

\* C7 (amended): frames are read in the order written and every frame read
\* is of the kind the reader expects; the client writes only when it has
\* read everything the server wrote and never has more than one unread
\* frame; the server writes up to three frames without waiting (salt and
\* hash; manifest and first offer; file message, data frame and next offer).
C7_LockStep ==
    /\ Len(c2s) <= 1
    /\ Len(s2c) <= 3
    /\ c2s # <<>> => s2c = <<>>
    /\ sexc \notin ProtocolErrors /\ cexc \notin ProtocolErrors

C7_Witness ==
    /\ Len(s2c) = 3
    /\ "type" \in DOMAIN s2c[1].body /\ "raw" \in DOMAIN s2c[2].body
    /\ "hash" \in DOMAIN s2c[3].body

\* C9 as stated: when start has returned or raised, every socket the side
\* created or accepted has been closed exactly once.
C9_SocketsClosedOnExit ==
    /\ spc = "done" => closes.l = 1 /\ (conn # "none" => closes.a = 1)
    /\ cpc = "done" => closes.c = 1

\* C10 as stated: a SocketClosedError in the server's per-file loop ends the
\* session normally: SyncServer.start returns without an error and has
\* closed both of its sockets.
C10_PeerCloseIsNormalEnd ==
    (spc = "done" /\ sexc = "SocketClosedError" /\ sexcAt = "recv_wanted") =>
        sres = "ok" /\ lsock = "closed" /\ conn = "closed"

\* ------------------------------------------------------------ liveness
\* a session without interrupt and without connect failure, in which both
\* processes keep running
NextLive == ServerStep \/ ClientStep \/ C_SocketReclaimed \/ Restart
LiveSpec == Init /\ [][NextLive]_vars /\ WF_vars(ServerStep) /\ WF_vars(ClientStep)

FsErrors == {"IsADirectoryError", "FileExistsError", "FileNotFoundError",
             "NotADirectoryError"}

BothClosed ==
    /\ Completed
    /\ lsock = "closed" /\ conn = "closed" /\ csock = "closed"
    /\ s2c = <<>> /\ c2s = <<>>

\* C8: between peers with the same password, without interrupt and without
\* I/O failure, both sides end closed: the server finishes its enumeration
\* and closes, the client sees the end of the stream at its next read of an
\* offer, returns without an error and closes its socket.
C8_BothSidesClose ==
    (spw = cpw /\ StartBinds(patterns)) ~> (BothClosed \/ cexc \in FsErrors)

C8_Witness ==
    /\ BothClosed /\ closes = [l |-> 1, a |-> 1, c |-> 1]
    /\ Len(filepaths) = 2 /\ strict

\* ------------------------------------------------------------ end of the server's session

\* C11 as stated: after loop completion, after a disconnect of the peer and
\* after an interrupt signal the server's session has ended with the
\* accepted connection and the listening socket closed.
C11_SessionEndClosesBoth ==
    (/\ spc = "done"
     /\ \/ sexc = "none"
        \/ sexc = "SocketClosedError"
        \/ sexc = "KeyboardInterrupt" /\ sexcAt \in ServerTryPcs) =>
        conn = "closed" /\ lsock = "closed"

\* C12 as stated: an interrupt delivered at any point after the handshake
\* (before or during the receipt of {strict}, the manifest, the per-file
\* loop) does not reach the caller and leaves the accepted connection and
\* the listening socket closed.
C12_InterruptIsOrderly ==
    (spc = "done" /\ sexc = "KeyboardInterrupt" /\ sexcAt \in {"mkdir"} \cup ServerTryPcs) =>
        sres = "ok" /\ conn = "closed" /\ lsock = "closed"

\* ------------------------------------------------------------ frames altered in transit
\* a key the two peers do not hold
ForeignKey == <<"attacker", 0>>

\* what the network can put in the place of an encrypted frame: the same
\* bytes without encryption, or a token made under another key
Altered(f) == {[enc |-> k, body |-> f.body] : k \in {NoKey, ForeignKey}}

\* the frame at the head of a stream is replaced before the peer reads it
Tamper ==
    \/ /\ s2c # <<>> /\ Head(s2c).enc = skey /\ skey # NoKey
       /\ \E g \in Altered(Head(s2c)) : s2c' = <<g>> \o Tail(s2c)
       /\ UNCHANGED <<args, framing, server, client, socks, ghost, c2s, wire>>
    \/ /\ c2s # <<>> /\ Head(c2s).enc = ckey /\ ckey # NoKey
       /\ \E g \in Altered(Head(c2s)) : c2s' = <<g>> \o Tail(c2s)
       /\ UNCHANGED <<args, framing, server, client, socks, ghost, s2c, wire>>

TamperSpec == Init /\ [][Next \/ Tamper]_vars

\* the frames written: salt and hash in clear, everything after them under
\* the session key
WireEncrypted ==
    \A i \in DOMAIN wire :
        IF i = 1 THEN IsSalt(i)
        ELSE IF i = 2 THEN IsHash(i)
        ELSE wire[i].frame.enc # NoKey /\ wire[i].frame.enc = skey /\ skey = ckey

\* a read after the handshake takes a frame off the stream only when the
\* frame is a token under the reader's key
AcceptsEncryptedOnly ==
    /\ (/\ cpc \in {"recv_manifest", "recv_offer", "recv_filemsg", "recv_data"}
        /\ s2c # <<>> /\ s2c' = Tail(s2c))
          => Head(s2c).enc = ckey /\ ckey # NoKey
    /\ (/\ spc \in {"recv_strict", "recv_wanted"}
        /\ c2s # <<>> /\ c2s' = Tail(c2s))
          => Head(c2s).enc = skey /\ skey # NoKey

\* C13: the first two frames of a session, the salt and then the
\* password-verification message, both written by the server, are the only
\* unencrypted ones; every later frame is written as a token under the
\* session key, and no read after the handshake accepts a frame that is not
\* such a token.
C13_OnlyHandshakeInClear == []WireEncrypted /\ [][AcceptsEncryptedOnly]_vars

C13_Witness ==
    /\ Len(wire) > 2
    /\ cexc = "InvalidToken" /\ s2c # <<>> /\ Head(s2c).enc = NoKey

\* ------------------------------------------------------------ secrets
\* the values a frame carries are path names, flags, file content, a salt or
\* a digest: never a password, never a key
CarriesNoSecret(b) ==
    /\ "hash" \in DOMAIN b => b.hash[1] = "sha256"
    /\ "raw" \in DOMAIN b => b.raw \in Salts \cup Contents
    /\ "path" \in DOMAIN b => b.path \notin {spw, cpw}
    /\ "type" \in DOMAIN b => b.type \notin {spw, cpw}
    /\ "paths" \in DOMAIN b => \A j \in DOMAIN b.paths : b.paths[j] \notin {spw, cpw}
    /\ DOMAIN b \subseteq {"hash", "raw", "path", "type", "paths", "strict", "wanted"}

\* C14: no frame written to the stream carries the password or the session
\* key; the frames sent in clear are the salt and SHA256(key) only, and each
\* side derives its key from its own password and the salt.
C14_NoSecretOnWire ==
    /\ \A i \in DOMAIN wire :
          /\ CarriesNoSecret(Body(i))
          /\ wire[i].frame.enc = NoKey =>
                \/ i = 1 /\ IsSalt(i) /\ Body(i).raw \in Salts
                \/ i = 2 /\ IsHash(i) /\ Body(i).hash[2] = skey
    /\ skey # NoKey => skey = DeriveKey(spw, Body(1).raw)
    /\ ckey # NoKey => ckey = DeriveKey(cpw, Body(1).raw)

C14_Witness ==
    /\ Completed /\ Len(wire) > 4
    /\ ckey = DeriveKey(cpw, Body(1).raw) /\ ckey = skey
    /\ \E i \in DOMAIN wire : IsData(i)

\* ------------------------------------------------------------ handshake
\* the key the client derives from the salt of this session
ClientSessionKey == DeriveKey(cpw, Body(1).raw)

\* the client has left client_handshake without an exception
ClientHandshakeDone ==
    \/ cpc \in {"send_strict", "recv_manifest", "recv_offer", "refuse", "get",
                "get_mkdir", "recv_filemsg", "recv_data", "finally"}
    \/ cpc = "done" /\ cexcAt \notin {"none", "mkdir", "connect", "recv_salt", "recv_hash"}

\* C15 as stated: once the server's handshake is over and the server is
\* serving, it has verified that its peer holds the same session key.
C15_Original == spc \in ServerTryPcs => ClientSessionKey = skey

\* C15 (amended): the handshake verifies the key on the client only: when
\* client_handshake has returned, the client's key is the server's key.  The
\* server verifies nothing in its handshake, but no application data flows
\* before the client's check: a third frame is written, and the server gets
\* past the receipt of {strict}, only when both sides hold the same key.
C15_ClientVerifies ==
    /\ ClientHandshakeDone => ckey = skey /\ skey # NoKey
    /\ Len(wire) > 2 => ClientSessionKey = skey
    /\ spc \in ServerTryPcs \ {"recv_strict"} => ckey = skey

C15_Witness ==
    /\ spc = "send_data" /\ cpc = "recv_filemsg"
    /\ ckey = skey /\ skey # NoKey /\ ClientHandshakeDone

\* C16: the key is a function of the normalized password and the salt, so
\* the client's handshake succeeds exactly when the two normalized
\* passwords are equal: equal passwords never end in PasswordMismatchError,
\* different passwords always do.
C16_HandshakeIffSamePassword ==
    /\ ClientHandshakeDone => cpw = spw
    /\ (cpc = "done" /\ cexcAt = "recv_hash") =>
           cexc = "PasswordMismatchError" /\ cpw # spw
    /\ (skey # NoKey /\ ckey # NoKey) => (ckey = skey <=> cpw = spw)

C16_Witness ==
    /\ run = 2 /\ cpc = "send_strict"
    /\ cpw = spw /\ ckey = skey /\ ckey = DeriveKey(spw, Body(1).raw)

\* ------------------------------------------------------------ pruning
\* the client is in its fetch loop, or left start from there
ClientInLoop ==
    \/ cpc \in {"recv_offer", "refuse", "get", "get_mkdir", "recv_filemsg",
                "recv_data", "finally"}
    \/ cpc = "done" /\ cexcAt \in {"recv_offer", "refuse", "get", "get_mkdir",
                                    "recv_filemsg", "recv_data"}

\* before the manifest is read nothing is pruned; in the fetch loop of a
\* strict session the prune is complete
PruneNotStartedOrComplete ==
    /\ cpc \in {"mkdir", "connect", "recv_salt", "recv_hash", "send_strict",
                "recv_manifest"} => ctree = ctree0
    /\ (strict /\ ClientInLoop) =>
           \A p \in Files(ctree) : p \in Files(stree) \/ p \in exclude

\* files disappear in the one step between the manifest and the first offer,
\* in strict mode, on the client
PruneOnlyBeforeLoop ==
    /\ (\E p \in Paths : IsFile(ctree, p) /\ ~IsFile(ctree', p)) =>
           strict /\ cpc = "recv_manifest" /\ cpc' = "recv_offer"
    /\ cpc' = "recv_manifest" => cpc \in {"send_strict", "recv_manifest"}
    /\ stree' = stree

\* C17: strict-mode pruning happens at most once per session, on the client
\* only, and is complete before the client reads the first offer or fetches
\* a file; at every point of the fetch loop the prune is either not started
\* or fully applied.
C17_PruneBeforeFetch == []PruneNotStartedOrComplete /\ [][PruneOnlyBeforeLoop]_vars

C17_Witness ==
    /\ strict /\ cpc = "recv_data"
    /\ \E p \in Files(ctree0) : ~Exists(ctree, p)
    /\ "b/c.txt" \in Files(ctree0) /\ ~Exists(ctree, "b/c.txt")

\* what the spec calls a glob exclusion: the pattern matches the path
GlobMatches(g, p) == g = "**/c.txt" /\ p = "b/c.txt"
GlobExcluded(p) == \E g \in patterns.globs : GlobMatches(g, p)

\* the client has pruned and not yet answered an offer
JustPruned ==
    /\ strict /\ cpc = "recv_offer" /\ cexc = "none"
    /\ Cardinality({i \in DOMAIN wire : wire[i].from = "client"}) = 1

\* C18 as stated: start accepts exclude paths and exclude patterns as the
\* host application passes them, and pruning deletes a client file exactly
\* when its path is neither in the manifest nor matched by an exclusion,
\* exact path or glob pattern.
C18_PruneHonoursExclusions ==
    /\ cexc # UnexpectedKeyword
    /\ JustPruned =>
          \A p \in Files(ctree0) :
              ~IsFile(ctree, p) <=>
                  (p \notin Files(stree) /\ p \notin exclude /\ ~GlobExcluded(p))

\* C19 as stated: once strict-mode pruning is over, every directory of the
\* client tree that is empty and not excluded has been removed.
C19_EmptyDirsRemoved ==
    JustPruned =>
        \A p \in Paths : (ctree[p].type = "dir" /\ p \notin exclude) => HasChild(ctree, p)

\* ------------------------------------------------------------ replies
\* the condition under which an offer is to be requested
Wanted(info) ==
    /\ info.path \notin exclude
    /\ ~IsFile(ctree, info.path) \/ info.hash # Sha256(ctree[info.path].data)

\* the client has read the last offer written and no reply to it is written
Unanswered ==
    /\ wire # <<>> /\ \E p \in Paths : IsOffer(Len(wire), p)
    /\ s2c = <<>> /\ cinfo = Body(Len(wire))

\* replies and offers alternate, and the branch taken fits the offer
RepliesPaired ==
    /\ \A i \in DOMAIN wire :
          /\ (\E p \in Paths : IsOffer(i, p)) /\ i < Len(wire)
                => IsWanted(i + 1, TRUE) \/ IsWanted(i + 1, FALSE)
          /\ IsWanted(i, TRUE) \/ IsWanted(i, FALSE)
                => i > 1 /\ \E p \in Paths : IsOffer(i - 1, p)
    /\ cpc = "get" => Wanted(cinfo)
    /\ cpc = "refuse" => ~Wanted(cinfo)

\* the frame written from get_file is {wanted: true}, the one from
\* refuse_file {wanted: false}
ReplyFitsBranch ==
    /\ (cpc = "get" /\ wire' # wire) =>
           wire' = Append(wire, [from |-> "client", frame |-> Frame(ckey, [wanted |-> TRUE], TRUE)])
    /\ (cpc = "refuse" /\ wire' # wire) =>
           wire' = Append(wire, [from |-> "client", frame |-> Frame(ckey, [wanted |-> FALSE], TRUE)])

MaxLen == 2
HeaderLen == 8
RecvCap == 1048576

ByteValues == {0, 255}
RECURSIVE SeqsUpTo(_)
SeqsUpTo(n) ==
    IF n = 0 THEN {<<>>}
    ELSE SeqsUpTo(n - 1) \cup {Append(s, b) : s \in {t \in SeqsUpTo(n - 1) : Len(t) = n - 1},
                                               b \in ByteValues}
Payloads == SeqsUpTo(MaxLen)

Min(a, b) == IF a < b THEN a ELSE b

\* byte k (0 the least significant) of an unsigned number
RECURSIVE Digit(_, _)
Digit(n, k) == IF k = 0 THEN n % 256 ELSE Digit(n \div 256, k - 1)
\* struct.pack(">Q", amount): eight bytes, most significant first
Pack(amount) == [i \in 1..HeaderLen |-> Digit(amount, HeaderLen - i)]
\* struct.unpack(">Q", data)[0]
RECURSIVE Unpack(_)
Unpack(data) ==
    IF data = <<>> THEN 0
    ELSE Unpack(SubSeq(data, 1, Len(data) - 1)) * 256 + data[Len(data)]

\* Fernet: a token starts with the version byte 0x80, is never empty and
\* hides the plaintext; decrypt gives the plaintext back and rejects what is
\* not a token
EncryptBytes(data) == <<128>> \o [i \in 1..Len(data) |-> 255 - data[i]]
IsToken(t) == t # <<>> /\ t[1] = 128
DecryptBytes(t) == [i \in 1..(Len(t) - 1) |-> 255 - t[i + 1]]

\* the bytes send_bytes hands to sendall: the length, then the payload
SentPayload(data, encrypt) == IF encrypt THEN EncryptBytes(data) ELSE data
SendBytes(data, encrypt) ==
    Pack(Len(SentPayload(data, encrypt))) \o SentPayload(data, encrypt)

\* one send_bytes call followed by another on a stream thought alone
FrameInit ==
    /\ Arguments /\ Constructed
    /\ stree = EmptyTree /\ ctree = EmptyTree /\ exclude = {} /\ ~strict
    /\ cpw = spw /\ ~patterns.given /\ sroot = "dir" /\ croot = "dir"
    /\ fx \in Payloads /\ fenc \in BOOLEAN
    /\ fnext \in {SendBytes(y, FALSE) : y \in {<<>>, <<255>>}}
    /\ fout = SendBytes(fx, fenc) \o fnext
    /\ fstream = <<>> /\ fclosed = FALSE
    /\ fpc = "header" /\ fdata = <<>> /\ fmsglen = 0 /\ fret = <<>> /\ fread = 0
    /\ famount = [neg |-> FALSE, mag |-> <<>>] /\ fsend = "idle" /\ fnum = <<>>

session == <<args, server, client, socks, ghost, s2c, c2s, wire>>

\* the network delivers some more of the bytes handed to sendall
F_Write ==
    /\ ~fclosed /\ fout # <<>>
    /\ \E n \in 1..Len(fout) :
          /\ fstream' = fstream \o SubSeq(fout, 1, n)
          /\ fout' = SubSeq(fout, n + 1, Len(fout))
    /\ UNCHANGED <<session, famount, fsend, fnum, fx, fenc, fnext, fclosed, fpc, fdata, fmsglen, fret, fread>>

\* the sending end closes; what it had not written never arrives
F_Close ==
    /\ ~fclosed
    /\ fclosed' = TRUE
    /\ UNCHANGED <<session, famount, fsend, fnum, fx, fenc, fnext, fout, fstream, fpc, fdata, fmsglen, fret, fread>>

\* recv(bufsize) blocks until bytes are there or the peer has closed
CanRecv == fstream # <<>> \/ fclosed
\* the lengths recv(bufsize) may return
RecvSizes(bufsize) == 1..Min(bufsize, Len(fstream))

\* a loop that takes b"" in the payload loop for the end of the data
OnEmptyRecvBreak(phase) == IF phase = "payload" THEN "returned" ELSE "SocketClosedError"

\* if packets == b"": raise SocketClosedError()
OnEmptyRecv(phase) == "SocketClosedError"

\* receive_num_bytes: one turn of the while loop
F_RecvHeader ==
    /\ fpc = "header" /\ Len(fdata) < HeaderLen /\ CanRecv
    /\ IF fstream = <<>>
       THEN /\ fpc' = OnEmptyRecv("header")
            /\ UNCHANGED <<fdata, fstream, fread>>
       ELSE \E n \in RecvSizes(Min(HeaderLen - Len(fdata), 8)) :
               /\ fdata' = fdata \o SubSeq(fstream, 1, n)
               /\ fstream' = SubSeq(fstream, n + 1, Len(fstream))
               /\ fread' = fread + n
               /\ fpc' = fpc
    /\ UNCHANGED <<session, famount, fsend, fnum, fx, fenc, fnext, fout, fclosed, fmsglen, fret>>

\* receive_num_bytes returns; all_data = bytearray()
F_Unpack ==
    /\ fpc = "header" /\ Len(fdata) >= HeaderLen
    /\ fmsglen' = Unpack(fdata)
    /\ fdata' = <<>>
    /\ fpc' = "payload"
    /\ UNCHANGED <<session, famount, fsend, fnum, fx, fenc, fnext, fout, fstream, fclosed, fret, fread>>

\* a payload loop that asks for a full buffer every time
PayloadRequestFull(msglen, datalen) == RecvCap

\* min(msglen - datalen, 2**20)
PayloadRequest(msglen, datalen) == Min(msglen - datalen, RecvCap)

\* receive_bytes: one turn of the while loop
F_RecvPayload ==
    /\ fpc = "payload" /\ Len(fdata) < fmsglen /\ CanRecv
    /\ IF fstream = <<>>
       THEN /\ fpc' = OnEmptyRecv("payload")
            /\ fret' = IF fpc' = "returned" THEN fdata ELSE fret
            /\ UNCHANGED <<fdata, fstream, fread>>
       ELSE \E n \in RecvSizes(PayloadRequest(fmsglen, Len(fdata))) :
               /\ fdata' = fdata \o SubSeq(fstream, 1, n)
               /\ fstream' = SubSeq(fstream, n + 1, Len(fstream))
               /\ fread' = fread + n
               /\ fpc' = fpc /\ fret' = fret
    /\ UNCHANGED <<session, famount, fsend, fnum, fx, fenc, fnext, fout, fclosed, fmsglen>>

\* receive_bytes after the loop: struct.unpack, decrypt, return
F_Return ==
    /\ fpc = "payload" /\ Len(fdata) >= fmsglen
    /\ IF Len(fdata) # fmsglen THEN fpc' = "struct.error" /\ fret' = fret
       ELSE IF fenc /\ ~IsToken(fdata) THEN fpc' = "InvalidToken" /\ fret' = fret
       ELSE /\ fpc' = "returned"
            /\ fret' = IF fenc THEN DecryptBytes(fdata) ELSE fdata
    /\ UNCHANGED <<session, famount, fsend, fnum, fx, fenc, fnext, fout, fstream, fclosed, fdata, fmsglen, fread>>

FrameNext == F_Write \/ F_Close \/ F_RecvHeader \/ F_Unpack \/ F_RecvPayload \/ F_Return

FrameSpec == FrameInit /\ [][FrameNext]_vars

\* the length of the frame under study on the stream
FrameLen == HeaderLen + Len(SentPayload(fx, fenc))

\* C21: receive_bytes after send_bytes(x) returns x whatever the payload
\* (empty, one byte, more) and however the stream splits header and payload
\* across recv calls; it has then consumed the 8 header bytes and the payload
\* bytes and no more, so the frame that follows is whole; it never fails
\* while the stream stays open.
C21_FrameRoundTrip ==
    /\ fpc = "returned" =>
          /\ fret = fx
          /\ fread = FrameLen
          /\ ~fenc => fread = 8 + Len(fx)
          /\ fstream \o fout = fnext
    /\ fpc \in {"header", "payload", "returned", "SocketClosedError"}
    /\ fpc = "SocketClosedError" => fclosed

C21_Witness ==
    /\ fpc = "returned" /\ fenc /\ Len(fx) = 1 /\ fret = fx
    /\ fstream # <<>> /\ fout # <<>> /\ ~fclosed

\* the frame is not complete yet
FrameIncomplete ==
    \/ fpc = "header" /\ Len(fdata) < HeaderLen
    \/ fpc = "payload" /\ Len(fdata) < fmsglen

\* a recv that yields nothing on an incomplete frame ends in SocketClosedError
EmptyRecvRaises ==
    (/\ FrameIncomplete /\ fclosed /\ fstream = <<>>
     /\ fpc' # fpc \/ fdata' # fdata) => fpc' = "SocketClosedError"

\* C22: receive_bytes raises SocketClosedError whenever recv yields no bytes
\* before the 8 header bytes or the announced payload bytes are complete,
\* and only then; what it returns has the announced length; a close after a
\* complete frame, also one of length zero, is no failure.
C22_ClosedMidFrame ==
    /\ [](/\ fpc = "SocketClosedError" =>
                fclosed /\ fstream = <<>> /\ fread < FrameLen
          /\ fpc = "returned" =>
                Len(fdata) = fmsglen /\ fmsglen = Len(SentPayload(fx, fenc)))
    /\ [][EmptyRecvRaises]_vars

C22_Witness ==
    /\ fpc = "SocketClosedError" /\ fmsglen = 2 /\ Len(fdata) = 1
    /\ fread = HeaderLen + 1

\* ------------------------------------------------------------ failures
\* C23 as stated: a SocketClosedError in the handshake or in the middle of
\* a transfer reaches the caller: when the stream ends after the client has
\* sent {wanted: true} and before the file message and the data frame are
\* read, SyncClient.start ends with the error.
C23_ClosedMidTransferSurfaces ==
    /\ (/\ cpc = "done" /\ cexc = "SocketClosedError"
        /\ cexcAt \in {"recv_salt", "recv_hash", "recv_manifest"}) => cres = "SocketClosedError"
    /\ (/\ cpc = "done" /\ cexc = "SocketClosedError"
        /\ cexcAt \in {"recv_filemsg", "recv_data"}) => cres = "SocketClosedError"

\* the content of a client file changes only when write_bytes stores the
\* whole payload of the data frame just read
WritesWholeFrame ==
    \A p \in Paths :
        (IsFile(ctree', p) /\ ctree'[p] # ctree[p]) =>
            /\ cpc = "recv_data" /\ p = cfile
            /\ s2c # <<>> /\ s2c' = Tail(s2c)
            /\ "raw" \in DOMAIN Head(s2c).body
            /\ ctree'[p] = FileNode(Head(s2c).body.raw)

\* C24: every file of the client tree has the content it had when the
\* session started or the whole content of the data frame sent for its
\* path, never an empty or partial one; when the stream ends in the middle
\* of a transfer the target is what it was before.
C24_WholeOrNothing ==
    /\ [](/\ \A p \in Files(ctree) :
                \/ ctree[p] = ctree0[p]
                \/ \E i \in DOMAIN wire :
                      /\ IsData(i) /\ i > 1 /\ IsFileMsg(i - 1, p)
                      /\ ctree[p] = FileNode(Body(i).raw)
          /\ (cexc = "SocketClosedError" /\ cexcAt \in {"recv_filemsg", "recv_data"}) =>
                ctree[cinfo.path] = ctree0[cinfo.path])
    /\ [][WritesWholeFrame]_vars

C24_Witness ==
    /\ cexc = "SocketClosedError" /\ cexcAt = "recv_data"
    /\ IsFile(ctree0, cinfo.path) /\ ctree[cinfo.path] = ctree0[cinfo.path]
    /\ \E p \in Files(ctree) : ctree[p] # ctree0[p]

\* a read that finds a frame which is not a token under the reader's key
\* raises InvalidToken: nothing is written to the tree or to the stream
RejectsAlteredFrame ==
    /\ (/\ cpc \in {"recv_manifest", "recv_offer", "recv_filemsg", "recv_data"}
        /\ cpc' # cpc /\ s2c # <<>> /\ Head(s2c).enc # ckey)
          => cexc' = "InvalidToken" /\ ctree' = ctree /\ wire' = wire
    /\ (/\ spc \in {"recv_strict", "recv_wanted"}
        /\ spc' # spc /\ sexc' # "KeyboardInterrupt" /\ c2s # <<>> /\ Head(c2s).enc # skey)
          => sexc' = "InvalidToken" /\ wire' = wire
    /\ cexc = "InvalidToken" => ctree' = ctree /\ Len(c2s') <= Len(c2s)
    /\ sexc = "InvalidToken" => Len(s2c') <= Len(s2c)

\* C25: a frame altered in transit after the handshake, or made under
\* another key, makes the receiver's decrypt fail with InvalidToken; the
\* error reaches the caller of start, and the receiver neither writes or
\* deletes a file nor sends a reply on account of that frame.
C25_AlteredFrameRejected ==
    /\ []((cpc = "done" /\ cexc = "InvalidToken") => cres = "InvalidToken")
    /\ []((spc = "done" /\ sexc = "InvalidToken") => sres = "InvalidToken")
    /\ [][RejectsAlteredFrame]_vars

C25_Witness ==
    /\ cpc = "done" /\ cres = "InvalidToken" /\ cexcAt = "recv_data"
    /\ s2c # <<>> /\ Head(s2c).enc = ForeignKey
    /\ ctree[cfile] = ctree0[cfile] /\ stree[cfile] # ctree0[cfile]

\* ------------------------------------------------------------ server states
\* LISTENING 0, ACCEPTED 1, HANDSHAKING 2, SERVING 3, closing 4, CLOSED or
\* aborted 5
ServerState(pc) ==
    IF pc = "accept" THEN 0
    ELSE IF pc = "send_salt" THEN 1
    ELSE IF pc = "send_hash" THEN 2
    ELSE IF pc = "finally" THEN 4
    ELSE IF pc = "done" THEN 5
    ELSE 3

\* within one run of start the server moves forward, one state at a time
\* unless it leaves the sequence for the end
ServerOrder ==
    (run' = run /\ spc' # spc) =>
        /\ ServerState(spc') >= ServerState(spc)
        /\ ServerState(spc') <= ServerState(spc) + 1 \/ ServerState(spc') >= 4

\* C26 as stated: the server goes LISTENING, ACCEPTED, HANDSHAKING, SERVING,
\* CLOSED and leaves that order on a mismatch or an I/O failure: when the
\* client has ended with PasswordMismatchError the server's session ends as
\* well.
C26_ServerLeavesServing ==
    /\ [][ServerOrder]_vars
    /\ (cres = "PasswordMismatchError") ~> (spc = "done")

\* after the error the server writes no frame
SilentAfterReadError ==
    sexc = "OSError" =>
        \A i \in DOMAIN wire' : i > Len(wire) => wire'[i].from = "client"

\* C27: an error of read_bytes in the server's loop, at the hashing or in
\* send_file, ends the session: it reaches the caller of start, no offer and
\* no file frame is written after it, and the accepted connection is closed.
C27_ReadErrorIsFatal ==
    /\ []((spc = "done" /\ sexc = "OSError") => sres = "OSError" /\ conn = "closed")
    /\ []((sexc = "OSError" /\ sexcAt = "loop") =>
              \A i \in DOMAIN wire : ~IsOffer(i, filepaths[idx]))
    /\ []((sexc = "OSError" /\ sexcAt = "send_filemsg") =>
              \A i \in DOMAIN wire : ~IsFileMsg(i, filepaths[idx]))
    /\ [][SilentAfterReadError]_vars

C27_Witness ==
    /\ spc = "done" /\ sres = "OSError" /\ sexcAt = "send_filemsg" /\ conn = "closed"
    /\ idx < Len(filepaths)
    /\ \E i \in DOMAIN wire : IsWanted(i, TRUE) /\ i = Len(wire)

\* ------------------------------------------------------------ single shot
\* a connection is accepted only by the accept call that opens start, and
\* start comes back to accept only in a new SyncServer
AcceptsOnce ==
    /\ (conn # "open" /\ conn' = "open") => spc = "accept" /\ wire = <<>>
    /\ (spc' = "accept" /\ spc # "accept") => run' = run + 1 /\ lsock' = "listening"
    /\ (spc \in {"finally", "done"} /\ run' = run) => conn' # "open" \/ conn = "open"
    /\ (conn = "closed" /\ run' = run) => conn' = "closed"

C29_RootBeforeAccept ==
    /\ conn \in {"open", "closed"} => sroot = "dir"
    /\ spc = "done" => sroot = "dir"

\* ------------------------------------------------------------ the manifest
IsManifest(i) == wire[i].from = "server" /\ "paths" \in DOMAIN Body(i)
IsStrict(i) == wire[i].from = "client" /\ "strict" \in DOMAIN Body(i)

\* C30: the server writes the {paths} manifest exactly when the {strict} it
\* read is true, once, after its enumeration and before any offer; the
\* client reads a manifest exactly when it sent strict = true, so no
\* manifest is ever left unread or waited for in vain.
C30_ManifestIffStrict ==
    /\ \A i \in DOMAIN wire :
          /\ IsStrict(i) => i = 3 /\ Body(i).strict = strict
          /\ IsManifest(i) =>
                /\ i = 4 /\ IsStrict(3) /\ Body(3).strict
                /\ Body(i).paths = filepaths
                /\ {filepaths[j] : j \in DOMAIN filepaths} = Files(stree)
    /\ spc \in {"loop", "recv_wanted", "send_filemsg", "send_data"} =>
          (strict <=> Len(wire) >= 4 /\ IsManifest(4))
    /\ spc = "send_manifest" => strict /\ Len(wire) = 3
    /\ cpc = "recv_manifest" => strict
    /\ ClientInLoop =>
          /\ \A k \in DOMAIN s2c : "paths" \notin DOMAIN s2c[k].body
          /\ strict => Len(wire) >= 4 /\ IsManifest(4)

C30_Witness ==
    /\ strict /\ Len(wire) = 5 /\ IsManifest(4) /\ Len(Body(4).paths) = 2
    /\ cpc = "recv_offer" /\ Len(s2c) = 1 /\ "hash" \in DOMAIN s2c[1].body

\* ------------------------------------------------------------ the server's loop
\* the paths offered so far, in the order of the offers
RECURSIVE OfferedUpTo(_)
OfferedUpTo(n) ==
    IF n = 0 THEN <<>>
    ELSE IF \E p \in Paths : IsOffer(n, p)
         THEN Append(OfferedUpTo(n - 1), Body(n).path)
         ELSE OfferedUpTo(n - 1)
Offered == OfferedUpTo(Len(wire))

\* C31: the offers written are the enumerated files in enumeration order,
\* each once, and all of them when the session has run to completion; the
\* frame after an offer is the client's reply; a file message comes right
\* after a {wanted: true} reply, carries the path of the offer just answered
\* and is followed by one data frame with the content of that file and then
\* by no second data frame.
C31_OffersInOrder ==
    /\ Len(Offered) <= Len(filepaths)
    /\ \A k \in DOMAIN Offered : Offered[k] = filepaths[k]
    /\ Completed => Offered = filepaths
    /\ \A i \in DOMAIN wire : \A p \in Paths :
          /\ (IsOffer(i, p) /\ i < Len(wire)) => wire[i + 1].from = "client"
          /\ IsFileMsg(i, p) =>
                /\ i > 2 /\ IsWanted(i - 1, TRUE) /\ IsOffer(i - 2, p)
                /\ i < Len(wire) => IsData(i + 1) /\ Body(i + 1).raw = stree[p].data
                /\ i + 1 < Len(wire) => ~IsData(i + 2)
                /\ Completed => i < Len(wire)

C31_Witness ==
    /\ Completed /\ Len(filepaths) = 2 /\ Len(wire) = 11 /\ ~strict
    /\ IsData(7) /\ IsData(11) /\ Offered = filepaths

\* C32 as stated: when SyncClient.start returns normally the server has
\* completed its enumeration: every server file was offered and every file
\* the client asked for was received and written.
C32_NormalReturnMeansComplete ==
    (cpc = "done" /\ cres = "ok") =>
        /\ sexc = "none" /\ idx > Len(filepaths)
        /\ Offered = filepaths
        /\ \A i \in DOMAIN wire :
              IsWanted(i, TRUE) => ctree[Body(i - 1).path] = stree[Body(i - 1).path]

ServerTreeReadOnly ==
    /\ stree' = stree
    /\ sroot' # sroot => sroot = "absent" /\ sroot' = "dir" /\ spc = "mkdir"

\* C34: the server's tree is read-only in a session: SyncServer.start
\* creates the root directory when it is absent and creates, changes or
\* removes nothing under it, whatever it reads from the client.
C34_ServerTreeReadOnly == [][ServerTreeReadOnly]_vars

C34_Witness ==
    /\ spc = "done" /\ sres = "ok" /\ strict /\ run = 1
    /\ Files(stree) = {"a.txt", "b/c.txt"}
    /\ Cardinality({i \in DOMAIN wire : IsData(i)}) = 2

\* ------------------------------------------------------------ a failed handshake
\* C35: when client_handshake ends in PasswordMismatchError the client has
\* made its root directory and nothing else: no file is deleted, also in
\* strict mode, none is written and the client has sent nothing; with
\* different passwords the client reaches neither the prune nor the loop.
C35_MismatchChangesNothing ==
    /\ cexc = "PasswordMismatchError" =>
          /\ ctree = ctree0 /\ croot = "dir"
          /\ \A i \in DOMAIN wire : wire[i].from = "server"
    /\ cpw # spw => cpc # "recv_manifest" /\ ~ClientInLoop

C35_Witness ==
    /\ strict /\ cpc = "done" /\ cexc = "PasswordMismatchError"
    /\ \E p \in Files(ctree0) : p \notin Files(stree) /\ p \notin exclude /\ IsFile(ctree, p)

\* ------------------------------------------------------------ manifest and offers
\* C36: in strict mode the offers follow the manifest, path by path in the
\* same order, and are the whole manifest when the session has run to
\* completion; no offer is written without the manifest before it or for a
\* path the manifest lacks, and a file that is offered was not pruned.
C36_ManifestMatchesOffers ==
    strict =>
        /\ (Len(wire) >= 4 /\ IsManifest(4)) =>
              /\ Len(Offered) <= Len(Body(4).paths)
              /\ \A k \in DOMAIN Offered : Offered[k] = Body(4).paths[k]
              /\ Completed => Offered = Body(4).paths
        /\ \A i \in DOMAIN wire : \A p \in Paths :
              IsOffer(i, p) =>
                  /\ i > 4 /\ IsManifest(4)
                  /\ \E k \in DOMAIN Body(4).paths : Body(4).paths[k] = p
                  /\ IsFile(ctree0, p) => IsFile(ctree, p)

C36_Witness ==
    /\ strict /\ Completed /\ Len(Body(4).paths) = 2 /\ Offered = Body(4).paths
    /\ \E p \in Paths : IsFile(ctree0, p) /\ IsFile(stree, p) /\ ctree0[p] # stree[p]
    /\ exclude = {}

\* ------------------------------------------------------------ where the client writes
\* the client's last frame is {wanted: true}, in reply to the offer of p
JustRequested(p) ==
    \E i \in DOMAIN wire :
        /\ IsWanted(i, TRUE) /\ i > 1 /\ IsOffer(i - 1, p)
        /\ \A j \in DOMAIN wire : j > i => wire[j].from = "server"

\* after the prune the client tree changes in two ways only: get_file makes
\* the parent directory of the requested path, receive_file writes the file
\* at the requested path
WritesRequestedOnly ==
    \A q \in Paths :
        (ctree'[q] # ctree[q] /\ cpc # "recv_manifest") =>
            \/ /\ cpc = "recv_data" /\ q = cinfo.path /\ q = cfile
               /\ IsFile(ctree', q) /\ JustRequested(q)
            \/ /\ cpc = "get_mkdir" /\ q = Parent(cinfo.path)
               /\ ctree'[q] = DirNode /\ JustRequested(cinfo.path)

\* C37: the client writes file content only at the path of the offer it has
\* just answered {wanted: true}: the file message it reads names that path,
\* the directory it makes is the parent of that path, and nothing else in
\* the client tree changes in the fetch loop.
C37_WritesOnlyRequested ==
    /\ [](cpc = "recv_data" => cfile = cinfo.path /\ JustRequested(cfile))
    /\ [][WritesRequestedOnly]_vars

C37_Witness ==
    /\ cpc = "recv_offer" /\ cfile = "b/c.txt"
    /\ ctree0["b"] = Absent /\ ctree["b"] = DirNode /\ ctree["b/c.txt"] = stree["b/c.txt"]
    /\ IsFile(stree, "a.txt") /\ ctree["a.txt"] = ctree0["a.txt"]

\* ------------------------------------------------------------ the length header
\* A Python int has no width. An amount is a sign and a magnitude in base
\* 256, least significant digit first, one digit more than the header holds.
NumDigits == HeaderLen + 1
ZeroMag == [i \in 1..NumDigits |-> 0]
TwoTo64 == [ZeroMag EXCEPT ![NumDigits] = 1]

\* the amounts tried: magnitudes around the ends of the range, and their sign
Amounts ==
  LET Magnitudes ==
    { ZeroMag,
      [ZeroMag EXCEPT ![1] = 1],
      [ZeroMag EXCEPT ![1] = 255],
      [ZeroMag EXCEPT ![2] = 1],
      [ZeroMag EXCEPT ![5] = 1, ![1] = 2],
      [ZeroMag EXCEPT ![8] = 128],
      [i \in 1..NumDigits |-> IF i = NumDigits THEN 0 ELSE 255],
      TwoTo64,
      [TwoTo64 EXCEPT ![1] = 1],
      [ZeroMag EXCEPT ![NumDigits] = 2],
      [i \in 1..NumDigits |-> 255] }
  IN {[neg |-> FALSE, mag |-> m] : m \in Magnitudes}
     \cup {[neg |-> TRUE, mag |-> m] : m \in {[ZeroMag EXCEPT ![1] = 1], TwoTo64}}

\* a > b on magnitudes, from digit k down
RECURSIVE GreaterFrom(_, _, _)
GreaterFrom(a, b, k) ==
    IF k = 0 THEN FALSE
    ELSE IF a[k] # b[k] THEN a[k] > b[k]
    ELSE GreaterFrom(a, b, k - 1)

\* amount < 0 or amount > 2**64
InvalidAmount(amount) ==
    \/ amount.neg /\ amount.mag # ZeroMag
    \/ GreaterFrom(amount.mag, TwoTo64, NumDigits)

\* struct.pack(">Q", amount) takes 0 <= amount <= 2**64 - 1 and raises
\* struct.error for anything else
FitsQ(amount) == ~(amount.neg /\ amount.mag # ZeroMag) /\ amount.mag[NumDigits] = 0
\* the eight bytes it gives, most significant first
PackQ(mag) == [i \in 1..HeaderLen |-> mag[HeaderLen + 1 - i]]
\* struct.unpack(">Q", data)[0]
UnpackQ(data) == [i \in 1..NumDigits |-> IF i = NumDigits THEN 0 ELSE data[HeaderLen + 1 - i]]

\* one send_num_bytes call, and a receive_num_bytes call on the other end
NumInit ==
    /\ Arguments /\ Constructed
    /\ stree = EmptyTree /\ ctree = EmptyTree /\ exclude = {} /\ ~strict
    /\ cpw = spw /\ ~patterns.given /\ sroot = "dir" /\ croot = "dir"
    /\ fx = <<>> /\ fenc = FALSE /\ fnext = <<>> /\ fout = <<>>
    /\ fstream = <<>> /\ fclosed = FALSE
    /\ fpc = "header" /\ fdata = <<>> /\ fmsglen = 0 /\ fret = <<>> /\ fread = 0
    /\ famount \in Amounts /\ fsend = "call" /\ fnum = <<>>

\* send_num_bytes(clientsocket, amount)
N_Send ==
    /\ fsend = "call" /\ ~fclosed
    /\ IF InvalidAmount(famount) THEN fsend' = "ValueError" /\ fout' = fout
       ELSE IF ~FitsQ(famount) THEN fsend' = "struct.error" /\ fout' = fout
       ELSE fsend' = "sent" /\ fout' = PackQ(famount.mag)
    /\ UNCHANGED <<session, fx, fenc, fnext, fstream, fclosed, fpc, fdata, fmsglen,
                   fret, fread, famount, fnum>>

\* receive_num_bytes returns int(converted_data)
N_Unpack ==
    /\ fpc = "header" /\ Len(fdata) >= HeaderLen
    /\ fnum' = UnpackQ(fdata)
    /\ fpc' = "num_done"
    /\ UNCHANGED <<session, fx, fenc, fnext, fout, fstream, fclosed, fdata, fmsglen,
                   fret, fread, famount, fsend>>

NumNext == N_Send \/ F_Write \/ F_Close \/ F_RecvHeader \/ N_Unpack

NumSpec == NumInit /\ [][NumNext]_vars

\* the amount fits 64 unsigned bits
Representable(amount) == ~amount.neg /\ amount.mag[NumDigits] = 0

\* C38: send_num_bytes accepts an amount exactly when it is representable in
\* 64 unsigned bits and then writes it as eight bytes, most significant
\* first; it rejects every other amount with ValueError before it writes
\* anything; receive_num_bytes returns the amount that was sent.
C38_HeaderRange ==
    /\ fsend \notin {"idle", "call"} /\ Representable(famount) =>
          /\ fsend = "sent"
          /\ fdata \o fstream \o fout = PackQ(famount.mag)
    /\ fsend \notin {"idle", "call"} /\ ~Representable(famount) =>
          /\ fsend = "ValueError"
          /\ fout = <<>> /\ fstream = <<>> /\ fread = 0
    /\ fpc = "num_done" => fnum = famount.mag

====
